---- MODULE Spec2Model ----
(***************************************************************************)
(* Model of io_scene_gltf2/blender/exp/gltf2_blender_extract.py:           *)
(* extract_primitives and its helpers.                                     *)
(*                                                                         *)
(* Conventions.                                                            *)
(*  - float32 values are modelled by integers.  Weights are counted in     *)
(*    units of 1/WeightUnit, every other quantity in units of 1.0.         *)
(*  - A 3-vector is a tuple <<x, y, z>>; a numpy (n, k) array is a         *)
(*    sequence of n tuples of length k; a structured "dot" is the tuple    *)
(*    of its field values in dot_fields order.                             *)
(*  - Python's None is the record None; every host object carries the      *)
(*    field is_none so that truthiness can be tested.                      *)
(*  - A matrix is [size, rows, translation]; the host matrices are drawn   *)
(*    from integer rotations (signed permutations of determinant 1), on    *)
(*    which inversion, normalisation and quaternion conversion are exact.  *)
(***************************************************************************)
EXTENDS Integers, Sequences, FiniteSets, TLC

(***************************************************************************)
(* Bounds of the checked input families.                                   *)
(***************************************************************************)
MaxTris == 2
MaxLoops == 6
MaxGroups == 5
MaxKeys == 1

MaxNames == 3

\* weight 1.0 expressed in weight units (weights are multiples of 1/2)
WeightUnit == 2
\* one joint set = 4 influences
JointSetSize == 4

None == [is_none |-> TRUE]

Truthy(x) == ~x.is_none

(***************************************************************************)
(* Generic sequence helpers.                                               *)
(***************************************************************************)
RECURSIVE SumSeq(_)
SumSeq(s) == IF s = <<>> THEN 0 ELSE Head(s) + SumSeq(Tail(s))

RECURSIVE Flatten(_)
Flatten(ss) == IF ss = <<>> THEN <<>> ELSE Head(ss) \o Flatten(Tail(ss))

Range(s) == {s[i] : i \in DOMAIN s}

\* s[idx] with a numpy integer index array (fancy indexing); 0-based indices
Take(s, idxs) == [k \in DOMAIN idxs |-> s[idxs[k] + 1]]

\* subsequence of s at the positions satisfying the boolean mask
RECURSIVE MaskSelect(_, _)
MaskSelect(s, mask) ==
    IF s = <<>> THEN <<>>
    ELSE (IF Head(mask) THEN <<Head(s)>> ELSE <<>>) \o MaskSelect(Tail(s), Tail(mask))

(***************************************************************************)
(* Vectors and matrices.                                                   *)
(***************************************************************************)
Dot3(a, b) == a[1] * b[1] + a[2] * b[2] + a[3] * b[3]

Cross3(a, b) ==
    << a[2] * b[3] - a[3] * b[2], a[3] * b[1] - a[1] * b[3], a[1] * b[2] - a[2] * b[1] >>

VAdd(a, b) == [i \in DOMAIN a |-> a[i] + b[i]]

VSub(a, b) == [i \in DOMAIN a |-> a[i] - b[i]]

VScale(k, a) == [i \in DOMAIN a |-> k * a[i]]

Transposed3(r) == [i \in 1..3 |-> [j \in 1..3 |-> r[j][i]]]

MatMul3(a, b) == [i \in 1..3 |-> [j \in 1..3 |-> a[i][1] * b[1][j] + a[i][2] * b[2][j] + a[i][3] * b[3][j]]]

MatVec3(r, v) == << Dot3(r[1], v), Dot3(r[2], v), Dot3(r[3], v) >>

Determinant3(r) == Dot3(r[1], Cross3(r[2], r[3]))

\* inverse of an integer matrix of determinant +1 or -1: adjugate / determinant
Inverted3(r) ==
    LET d == Determinant3(r)
        adjT == << Cross3(r[2], r[3]), Cross3(r[3], r[1]), Cross3(r[1], r[2]) >>
    IN CASE d = 1 -> Transposed3(adjT)
         [] d = -1 -> Transposed3([i \in 1..3 |-> VScale(-1, adjT[i])])

Mat3(rows) == [size |-> 3, rows |-> rows, translation |-> <<0, 0, 0>>]

Mat4(rows, t) == [size |-> 4, rows |-> rows, translation |-> t]

to_3x3(m) == Mat3(m.rows)

\* Matrix.inverted() of an affine matrix: x -> R^-1 x - R^-1 t
Inverted(m) ==
    LET ri == Inverted3(m.rows)
    IN [size |-> m.size, rows |-> ri, translation |-> VScale(-1, MatVec3(ri, m.translation))]

\* a @ b for affine matrices
MatMul(a, b) ==
    [size |-> a.size, rows |-> MatMul3(a.rows, b.rows),
     translation |-> VAdd(MatVec3(a.rows, b.translation), a.translation)]

Transposed(m) == [m EXCEPT !.rows = Transposed3(m.rows)]

\* Matrix.to_quaternion().to_matrix(): the rotation of the matrix, which for a
\* proper rotation is the matrix itself
to_quaternion_to_matrix(m) ==
    CASE Determinant3(m.rows) = 1 -> Mat3(m.rows)

IdentityRows == << <<1, 0, 0>>, <<0, 1, 0>>, <<0, 0, 1>> >>

\* rotation by a quarter turn about z: x -> y, y -> -x
RotZRows == << <<0, -1, 0>>, <<1, 0, 0>>, <<0, 0, 1>> >>

\* rotation by a quarter turn about x: y -> z, z -> -y
RotXRows == << <<1, 0, 0>>, <<0, 0, -1>>, <<0, 1, 0>> >>

Sign(k) == IF k > 0 THEN 1 ELSE IF k < 0 THEN -1 ELSE 0

IsAxisAligned(v) == Cardinality({i \in 1..3 : v[i] # 0}) = 1

(***************************************************************************)
(* __zup2yup: x,y,z -> x,z,-y (on the first three columns of one row).     *)
(***************************************************************************)
zup2yup(v) == << v[1], v[3], -v[2] >>

(***************************************************************************)
(* __apply_mat_to_all: m @ v for every row v, plus the translation of a    *)
(* 4x4 matrix.                                                             *)
(***************************************************************************)
apply_mat_to_all(matrix, vectors) ==
    [i \in DOMAIN vectors |->
        IF matrix.size = 4
        THEN VAdd(MatVec3(matrix.rows, vectors[i]), matrix.translation)
        ELSE MatVec3(matrix.rows, vectors[i])]

(***************************************************************************)
(* __normalize_vecs: divide by the norm where the norm is not zero.  Exact *)
(* on zero and axis-aligned vectors, the only ones the input families      *)
(* produce.                                                                *)
(***************************************************************************)
normalize_vec(v) ==
    CASE v = <<0, 0, 0>> -> v
      [] IsAxisAligned(v) -> << Sign(v[1]), Sign(v[2]), Sign(v[3]) >>

normalize_vecs(vectors) == [i \in DOMAIN vectors |-> normalize_vec(vectors[i])]

(***************************************************************************)
(* __get_positions: vertex positions and morph position deltas.            *)
(***************************************************************************)
\* vs -= base, row by row
morph_delta_reversed(vs, base) == [i \in DOMAIN vs |-> VSub(base[i], vs[i])]

morph_delta(vs, base) == [i \in DOMAIN vs |-> VSub(vs[i], base[i])]

get_positions(blender_mesh, key_blocks, armature, blender_object, export_settings) ==
    LET raw_locs == [i \in DOMAIN blender_mesh.vertices |-> blender_mesh.vertices[i].co]
        raw_morph == [k \in DOMAIN key_blocks |-> key_blocks[k].co]
        skinned == Truthy(armature) /\ Truthy(blender_object)
        loc_transform == blender_object.matrix_world
        locs1 == IF skinned THEN apply_mat_to_all(loc_transform, raw_locs) ELSE raw_locs
        morph1 == [k \in DOMAIN raw_morph |->
                     IF skinned THEN apply_mat_to_all(loc_transform, raw_morph[k])
                     ELSE raw_morph[k]]
        \* glTF stores deltas in morph targets
        morph2 == [k \in DOMAIN morph1 |-> morph_delta(morph1[k], locs1)]
        yup == export_settings.YUP
    IN [locs |-> IF yup THEN [i \in DOMAIN locs1 |-> zup2yup(locs1[i])] ELSE locs1,
        morph_locs |-> [k \in DOMAIN morph2 |->
                          IF yup THEN [i \in DOMAIN morph2[k] |-> zup2yup(morph2[k][i])]
                          ELSE morph2[k]]]

(***************************************************************************)
(* __get_normals: the normal of each loop and the morph normal deltas.     *)
(***************************************************************************)
\* replace zero normals with the unit UP vector
replace_zero_normals(ns) ==
    [i \in DOMAIN ns |-> IF ns[i] = <<0, 0, 0>> THEN <<0, 0, 1>> ELSE ns[i]]

get_normals(blender_mesh, key_blocks, armature, blender_object, export_settings) ==
    LET raw_normals == [i \in DOMAIN blender_mesh.loops |-> blender_mesh.loops[i].normal]
        raw_morph == [k \in DOMAIN key_blocks |-> key_blocks[k].normals]
        skinned == Truthy(armature) /\ Truthy(blender_object)
        apply_matrix ==
            Transposed(Inverted(to_3x3(
                MatMul(Inverted(armature.matrix_world), blender_object.matrix_world))))
        normal_transform == MatMul(to_3x3(armature.matrix_world), apply_matrix)
        normals1 == IF skinned
                    THEN normalize_vecs(apply_mat_to_all(normal_transform, raw_normals))
                    ELSE raw_normals
        morph1 == [k \in DOMAIN raw_morph |->
                     IF skinned
                     THEN normalize_vecs(apply_mat_to_all(normal_transform, raw_morph[k]))
                     ELSE raw_morph[k]]
        normals2 == replace_zero_normals(normals1)
        morph2 == [k \in DOMAIN morph1 |-> replace_zero_normals(morph1[k])]
        \* glTF stores deltas in morph targets
        morph3 == [k \in DOMAIN morph2 |-> morph_delta(morph2[k], normals2)]
        yup == export_settings.YUP
    IN [normals |-> IF yup THEN [i \in DOMAIN normals2 |-> zup2yup(normals2[i])] ELSE normals2,
        morph_normals |-> [k \in DOMAIN morph3 |->
                             IF yup THEN [i \in DOMAIN morph3[k] |-> zup2yup(morph3[k][i])]
                             ELSE morph3[k]]]

(***************************************************************************)
(* __get_tangents and __get_bitangent_signs.                               *)
(***************************************************************************)
get_tangents(blender_mesh, armature, blender_object, export_settings) ==
    LET raw == [i \in DOMAIN blender_mesh.loops |-> blender_mesh.loops[i].tangent]
        skinned == Truthy(armature) /\ Truthy(blender_object)
        apply_matrix == MatMul(Inverted(armature.matrix_world), blender_object.matrix_world)
        tangent_transform == to_quaternion_to_matrix(apply_matrix)
        t1 == IF skinned THEN normalize_vecs(apply_mat_to_all(tangent_transform, raw)) ELSE raw
    IN IF export_settings.YUP THEN [i \in DOMAIN t1 |-> zup2yup(t1[i])] ELSE t1

get_bitangent_signs(blender_mesh, armature, blender_object, export_settings) ==
    LET raw == [i \in DOMAIN blender_mesh.loops |-> blender_mesh.loops[i].bitangent_sign]
        skinned == Truthy(armature) /\ Truthy(blender_object)
        apply_matrix == MatMul(Inverted(armature.matrix_world), blender_object.matrix_world)
        tangent_transform == to_quaternion_to_matrix(apply_matrix)
        flipped == Determinant3(tangent_transform.rows) < 0
    IN IF skinned /\ flipped THEN [i \in DOMAIN raw |-> -raw[i]] ELSE raw

(***************************************************************************)
(* __calc_morph_tangents: rotate the tangent by the rotation taking the    *)
(* morphed normal to the base normal.  Vector.rotation_difference is exact *)
(* on equal and on orthogonal unit axis vectors.                           *)
(***************************************************************************)
\* morph_n.rotation_difference(n), applied to t
rotate_by_difference(morph_n, n, t) ==
    CASE morph_n = n -> t
      [] Dot3(morph_n, n) = 0 /\ IsAxisAligned(morph_n) /\ IsAxisAligned(n) ->
            LET c == Cross3(morph_n, n)
            IN VAdd(VAdd(VScale(Dot3(t, morph_n), n), VScale(-Dot3(t, n), morph_n)),
                    VScale(Dot3(t, c), c))

calc_morph_tangents(normals, morph_normal_deltas, tangents) ==
    [i \in DOMAIN normals |->
        LET n == normals[i]
            morph_n == VAdd(n, morph_normal_deltas[i])
            t == << tangents[i][1], tangents[i][2], tangents[i][3] >>
        IN VSub(rotate_by_difference(morph_n, n, t), t)]

(***************************************************************************)
(* __get_uvs: Blender UV space -> glTF UV space, u,v -> u,1-v.             *)
(***************************************************************************)
get_uvs(blender_mesh, uv_i) ==
    LET layer == blender_mesh.uv_layers.layers[uv_i + 1]
    IN [i \in DOMAIN blender_mesh.loops |-> << layer[i][1], 1 - layer[i][2] >>]

(***************************************************************************)
(* __get_colors: sRGB -> linear on the colour channels, alpha unchanged.   *)
(* The transfer curve on the sampled channel values -1.0, 0.0 and 1.0:     *)
(* negative values clamp to 0, 0 and 1 are fixed points.                   *)
(***************************************************************************)
srgb_to_linear(c) ==
    CASE c < 0 -> 0
      [] c = 0 -> 0
      [] c = 1 -> 1

get_colors(blender_mesh, color_i) ==
    LET layer == blender_mesh.vertex_colors[color_i + 1]
    IN [i \in DOMAIN blender_mesh.loops |->
          << srgb_to_linear(layer[i][1]), srgb_to_linear(layer[i][2]),
             srgb_to_linear(layer[i][3]), layer[i][4] >>]

(***************************************************************************)
(* __get_facemaps: the facemap value of the polygon of each loop.          *)
(***************************************************************************)
get_facemaps(blender_mesh) ==
    LET poly_facemap == blender_mesh.face_maps[1]
        polys == blender_mesh.polygons
        owner(l) == CHOOSE p \in DOMAIN polys :
                        /\ polys[p].loop_start <= l
                        /\ l < polys[p].loop_start + polys[p].loop_total
                        /\ \A q \in DOMAIN polys :
                              (polys[q].loop_start <= l
                                 /\ l < polys[q].loop_start + polys[q].loop_total) => q <= p
        owned(l) == \E p \in DOMAIN polys :
                        polys[p].loop_start <= l /\ l < polys[p].loop_start + polys[p].loop_total
        \* loop_polyidx starts as zeros
        loop_polyidx == [i \in DOMAIN blender_mesh.loops |->
                            IF owned(i - 1) THEN owner(i - 1) - 1 ELSE 0]
    IN [i \in DOMAIN blender_mesh.loops |-> poly_facemap[loop_polyidx[i] + 1]]

(***************************************************************************)
(* __get_extra_vgroups: vertex weights for the vertex groups that are not  *)
(* used for skinning, as a list of (name, weights) in dict order.          *)
(***************************************************************************)
\* the weight of the first group element of the vertex that names group i
vertex_weight_in_group(vertex, i) ==
    LET hits == {k \in DOMAIN vertex.groups : vertex.groups[k].group = i}
    IN IF hits = {} THEN 0
       ELSE vertex.groups[CHOOSE k \in hits : \A h \in hits : k <= h].weight

skinning_vgroup_names(modifiers) ==
    IF modifiers.is_none THEN {}
    ELSE UNION { IF /\ modifiers.list[m].type = "ARMATURE"
                    /\ modifiers.list[m].use_vertex_groups
                    /\ Truthy(modifiers.list[m].object)
                    /\ modifiers.list[m].object.type = "ARMATURE"
                 THEN Range(modifiers.list[m].object.bones)
                 ELSE {} : m \in DOMAIN modifiers.list }

get_extra_vgroups(blender_mesh, modifiers, blender_vertex_groups) ==
    LET skinning == skinning_vgroup_names(modifiers)
        kept == MaskSelect([i \in DOMAIN blender_vertex_groups |-> i],
                           [i \in DOMAIN blender_vertex_groups |->
                               blender_vertex_groups[i] \notin skinning])
    IN IF blender_vertex_groups = <<>> THEN <<>>
       ELSE IF Cardinality(skinning) = Len(blender_vertex_groups) THEN <<>>
       ELSE [k \in DOMAIN kept |->
               [name |-> blender_vertex_groups[kept[k]],
                weights |-> [v \in DOMAIN blender_mesh.vertices |->
                               vertex_weight_in_group(blender_mesh.vertices[v], kept[k] - 1)]]]

(***************************************************************************)
(* __get_bone_data: the (joint, weight) pairs of each vertex, sorted by    *)
(* weight, and the number of joint sets.                                   *)
(***************************************************************************)
\* joint_name_to_index.get(name): the index of the last joint of that name,
\* -1 standing for None
joint_of_name(skin, name) ==
    LET hits == {j \in DOMAIN skin.joints : skin.joints[j] = name}
    IN IF hits = {} THEN -1 ELSE (CHOOSE j \in hits : \A h \in hits : h <= j) - 1

group_to_joint(skin, blender_vertex_groups) ==
    [g \in DOMAIN blender_vertex_groups |-> joint_of_name(skin, blender_vertex_groups[g])]

\* whether a group element passes the three filters of the loop body
keeps_unmapped(g2j, group_element) == group_element.weight > 0

keeps_influence(g2j, group_element) ==
    /\ group_element.weight > 0
    /\ group_element.group + 1 \in DOMAIN g2j
    /\ g2j[group_element.group + 1] # -1

\* the pair appended for a kept group element; an unmapped element reads joint -1
bone_of(g2j, group_element) ==
    << IF group_element.group + 1 \in DOMAIN g2j THEN g2j[group_element.group + 1] ELSE -1,
       group_element.weight >>

RemoveAt(s, k) == [i \in 1..(Len(s) - 1) |-> IF i < k THEN s[i] ELSE s[i + 1]]

\* list.sort(key=weight, reverse=True): stable, equal weights keep their order
RECURSIVE sort_bones_ties_reversed(_)
sort_bones_ties_reversed(bones) ==
    IF bones = <<>> THEN <<>>
    ELSE LET k == CHOOSE i \in DOMAIN bones :
                    /\ \A j \in DOMAIN bones : bones[j][2] <= bones[i][2]
                    /\ \A j \in DOMAIN bones : bones[j][2] = bones[i][2] => j <= i
         IN <<bones[k]>> \o sort_bones_ties_reversed(RemoveAt(bones, k))

RECURSIVE sort_bones(_)
sort_bones(bones) ==
    IF bones = <<>> THEN <<>>
    ELSE LET k == CHOOSE i \in DOMAIN bones :
                    /\ \A j \in DOMAIN bones : bones[j][2] <= bones[i][2]
                    /\ \A j \in DOMAIN bones : bones[j][2] = bones[i][2] => i <= j
         IN <<bones[k]>> \o sort_bones(RemoveAt(bones, k))

\* HACK for verts with zero weight (#308)
substitute_none(bones) == bones

substitute_synthetic(bones) == IF bones = <<>> THEN << <<0, WeightUnit>> >> ELSE bones

vertex_bones(g2j, vertex) ==
    LET kept == MaskSelect(vertex.groups,
                           [k \in DOMAIN vertex.groups |-> keeps_influence(g2j, vertex.groups[k])])
    IN substitute_synthetic(sort_bones([k \in DOMAIN kept |-> bone_of(g2j, kept[k])]))

Max(S) == CHOOSE x \in S : \A y \in S : y <= x

\* How many joint sets do we need? 1 set = 4 influences
joint_sets_needed(max_num_influences) ==
    (max_num_influences + (JointSetSize - 1)) \div JointSetSize

get_bone_data(blender_mesh, skin, blender_vertex_groups) ==
    LET g2j == group_to_joint(skin, blender_vertex_groups)
        vert_bones == [v \in DOMAIN blender_mesh.vertices |->
                         vertex_bones(g2j, blender_mesh.vertices[v])]
        max_num_influences == Max({0} \cup {Len(vert_bones[v]) : v \in DOMAIN vert_bones})
    IN [vert_bones |-> vert_bones, num_joint_sets |-> joint_sets_needed(max_num_influences)]

(***************************************************************************)
(* np.unique(prim_dots, return_inverse=True) on a structured array: the    *)
(* distinct records in ascending order (field by field, in dot_fields      *)
(* order) and, for every input record, its index in that list.             *)
(***************************************************************************)
LexLess(a, b) ==
    \E i \in DOMAIN a : a[i] < b[i] /\ \A j \in 1..(i - 1) : a[j] = b[j]

RECURSIVE SortedSeq(_)
SortedSeq(S) ==
    IF S = {} THEN <<>>
    ELSE LET m == CHOOSE x \in S : \A y \in S : y = x \/ LexLess(x, y)
         IN <<m>> \o SortedSeq(S \ {m})

IndexOfOneBased(s, x) == CHOOSE k \in DOMAIN s : s[k] = x

IndexOf(s, x) == (CHOOSE k \in DOMAIN s : s[k] = x) - 1

\* a deduplication that keeps the records in order of first appearance
RECURSIVE FirstOccurrences(_, _)
FirstOccurrences(s, seen) ==
    IF s = <<>> THEN <<>>
    ELSE IF Head(s) \in seen THEN FirstOccurrences(Tail(s), seen)
    ELSE <<Head(s)>> \o FirstOccurrences(Tail(s), seen \cup {Head(s)})

np_unique_values_first_seen(records) == FirstOccurrences(records, {})

np_unique_values(records) == SortedSeq(Range(records))

\* a deduplication that compares the vertex index alone
np_unique_by_vertex(records) ==
    LET firsts == FirstOccurrences([k \in DOMAIN records |-> records[k][1]], {})
        values == [k \in DOMAIN firsts |->
                     records[CHOOSE r \in DOMAIN records : records[r][1] = firsts[k]]]
    IN [values |-> values,
        inverse |-> [k \in DOMAIN records |-> IndexOf(firsts, records[k][1])]]

np_unique(records) ==
    LET values == np_unique_values(records)
    IN [values |-> values,
        inverse |-> [k \in DOMAIN records |-> IndexOf(values, records[k])]]

(***************************************************************************)
(* extract_primitives, first part: the export flags, the armature and the  *)
(* skin, the key blocks (lines 25-89).                                     *)
(***************************************************************************)
\* modifiers_dict["ARMATURE"].object: the dict keeps the last modifier of a type
armature_modifier_object(modifiers) ==
    LET hits == IF modifiers.is_none THEN {}
                ELSE {m \in DOMAIN modifiers.list : modifiers.list[m].type = "ARMATURE"}
    IN IF hits = {} THEN None
       ELSE modifiers.list[CHOOSE m \in hits : \A h \in hits : h <= m].object

\* whether calc_tangents is attempted
tangents_attempted(blender_mesh, export_settings) ==
    /\ export_settings.NORMALS
    /\ export_settings.TANGENTS
    /\ blender_mesh.uv_layers.active
    /\ Len(blender_mesh.uv_layers.layers) > 0

tangents_computed_ignoring_failure(blender_mesh, export_settings) ==
    tangents_attempted(blender_mesh, export_settings)

tangents_computed(blender_mesh, export_settings) ==
    /\ tangents_attempted(blender_mesh, export_settings)
    /\ ~blender_mesh.calc_tangents_raises

\* the except branch of the try around calc_tangents
tangents_warning(blender_mesh, export_settings) ==
    /\ tangents_attempted(blender_mesh, export_settings)
    /\ blender_mesh.calc_tangents_raises

active_key_blocks(blender_mesh, export_settings) ==
    IF blender_mesh.shape_keys # <<>> /\ export_settings.MORPH
    THEN MaskSelect(blender_mesh.shape_keys,
                    [k \in DOMAIN blender_mesh.shape_keys |->
                        ~(blender_mesh.shape_keys[k].is_relative_key
                            \/ blender_mesh.shape_keys[k].mute)])
    ELSE <<>>

settings_of(blender_mesh, blender_object, blender_vertex_groups, modifiers, export_settings, gathered_skin) ==
    LET use_n == export_settings.NORMALS
        use_t == tangents_computed(blender_mesh, export_settings)
        skinning == blender_vertex_groups # <<>> /\ export_settings.SKINS
        a0 == IF skinning THEN armature_modifier_object(modifiers) ELSE None
        \* Skin must be ignored if the object is parented to a bone of the armature
        is_child_of_arma == /\ Truthy(a0)
                            /\ Truthy(blender_object)
                            /\ blender_object.parent_type = "BONE"
                            /\ blender_object.parent_name = a0.name
        a1 == IF is_child_of_arma THEN None ELSE a0
        sk == IF Truthy(a1) THEN gathered_skin ELSE None
        a2 == IF Truthy(sk) THEN a1 ELSE None
        use_mn == use_n /\ export_settings.MORPH_NORMAL
    IN [use_normals |-> use_n,
        use_tangents |-> use_t,
        tex_coord_max |-> IF export_settings.TEX_COORDS /\ blender_mesh.uv_layers.active
                          THEN Len(blender_mesh.uv_layers.layers) ELSE 0,
        color_max |-> IF export_settings.COLORS THEN Len(blender_mesh.vertex_colors) ELSE 0,
        armature |-> a2,
        skin |-> sk,
        use_morph_normals |-> use_mn,
        use_morph_tangents |-> use_mn /\ use_t /\ export_settings.MORPH_TANGENT,
        key_blocks |-> active_key_blocks(blender_mesh, export_settings),
        use_materials |-> export_settings.MATERIALS,
        use_facemaps |-> blender_mesh.face_maps # <<>>]

(***************************************************************************)
(* The per-vertex data (lines 92-95).                                      *)
(***************************************************************************)
vert_data_of(blender_mesh, blender_object, blender_vertex_groups, modifiers, export_settings, cfg) ==
    LET pos == get_positions(blender_mesh, cfg.key_blocks, cfg.armature, blender_object,
                             export_settings)
        bd == IF Truthy(cfg.skin)
              THEN get_bone_data(blender_mesh, cfg.skin, blender_vertex_groups)
              ELSE [vert_bones |-> <<>>, num_joint_sets |-> 0]
    IN [locs |-> pos.locs,
        morph_locs |-> pos.morph_locs,
        vert_bones |-> bd.vert_bones,
        num_joint_sets |-> bd.num_joint_sets,
        extra_vgroup_weights |-> get_extra_vgroups(blender_mesh, modifiers, blender_vertex_groups)]

(***************************************************************************)
(* The dot struct and the dots of all loops (lines 109-180).               *)
(***************************************************************************)
RECURSIVE MergeAll(_)
MergeAll(fs) == IF fs = <<>> THEN <<>> ELSE Head(fs) @@ MergeAll(Tail(fs))

Num(i) == ToString(i)

dot_fields_of(cfg) ==
    <<"vertex_index">>
    \o (IF cfg.use_normals THEN <<"nx", "ny", "nz">> ELSE <<>>)
    \o (IF cfg.use_tangents THEN <<"tx", "ty", "tz", "tw">> ELSE <<>>)
    \o Flatten([i \in 1..cfg.tex_coord_max |->
                  << "uv" \o Num(i - 1) \o "x", "uv" \o Num(i - 1) \o "y" >>])
    \o Flatten([i \in 1..cfg.color_max |->
                  << "color" \o Num(i - 1) \o "r", "color" \o Num(i - 1) \o "g",
                     "color" \o Num(i - 1) \o "b", "color" \o Num(i - 1) \o "a" >>])
    \o (IF cfg.use_morph_normals
        THEN Flatten([i \in 1..Len(cfg.key_blocks) |->
                        << "morph" \o Num(i - 1) \o "nx", "morph" \o Num(i - 1) \o "ny",
                           "morph" \o Num(i - 1) \o "nz" >>])
        ELSE <<>>)
    \o (IF cfg.use_facemaps THEN <<"facemaps">> ELSE <<>>)

Column(rows, c) == [i \in DOMAIN rows |-> rows[i][c]]

\* the per-loop columns assigned to dots, by field name
dot_columns_of(blender_mesh, blender_object, export_settings, cfg) ==
    LET kbs == IF cfg.use_morph_normals THEN cfg.key_blocks ELSE <<>>
        ns == get_normals(blender_mesh, kbs, cfg.armature, blender_object, export_settings)
        tangents == get_tangents(blender_mesh, cfg.armature, blender_object, export_settings)
        signs == get_bitangent_signs(blender_mesh, cfg.armature, blender_object, export_settings)
    IN MergeAll(
        << "vertex_index" :> [i \in DOMAIN blender_mesh.loops |-> blender_mesh.loops[i].vertex_index] >>
        \o (IF cfg.use_normals
            THEN << "nx" :> Column(ns.normals, 1), "ny" :> Column(ns.normals, 2),
                    "nz" :> Column(ns.normals, 3) >>
                 \o Flatten([k \in DOMAIN ns.morph_normals |->
                      << ("morph" \o Num(k - 1) \o "nx") :> Column(ns.morph_normals[k], 1),
                         ("morph" \o Num(k - 1) \o "ny") :> Column(ns.morph_normals[k], 2),
                         ("morph" \o Num(k - 1) \o "nz") :> Column(ns.morph_normals[k], 3) >>])
            ELSE <<>>)
        \o (IF cfg.use_tangents
            THEN << "tx" :> Column(tangents, 1), "ty" :> Column(tangents, 2),
                    "tz" :> Column(tangents, 3), "tw" :> signs >>
            ELSE <<>>)
        \o Flatten([i \in 1..cfg.tex_coord_max |->
              << ("uv" \o Num(i - 1) \o "x") :> Column(get_uvs(blender_mesh, i - 1), 1),
                 ("uv" \o Num(i - 1) \o "y") :> Column(get_uvs(blender_mesh, i - 1), 2) >>])
        \o Flatten([i \in 1..cfg.color_max |->
              << ("color" \o Num(i - 1) \o "r") :> Column(get_colors(blender_mesh, i - 1), 1),
                 ("color" \o Num(i - 1) \o "g") :> Column(get_colors(blender_mesh, i - 1), 2),
                 ("color" \o Num(i - 1) \o "b") :> Column(get_colors(blender_mesh, i - 1), 3),
                 ("color" \o Num(i - 1) \o "a") :> Column(get_colors(blender_mesh, i - 1), 4) >>])
        \o (IF cfg.use_facemaps THEN << "facemaps" :> get_facemaps(blender_mesh) >> ELSE <<>>))

dots_of(blender_mesh, blender_object, export_settings, cfg) ==
    LET fields == dot_fields_of(cfg)
        cols == dot_columns_of(blender_mesh, blender_object, export_settings, cfg)
    IN [i \in DOMAIN blender_mesh.loops |-> [f \in DOMAIN fields |-> cols[fields[f]][i]]]

(***************************************************************************)
(* Triangles sorted into primitives (lines 184-204): the list of           *)
(* (material index, indices into dots) in dict order.                      *)
(***************************************************************************)
loop_indices_of(blender_mesh) ==
    Flatten([t \in DOMAIN blender_mesh.loop_triangles |-> blender_mesh.loop_triangles[t].loops])

RECURSIVE SortedInts(_)
SortedInts(S) ==
    IF S = {} THEN <<>>
    ELSE LET m == CHOOSE x \in S : \A y \in S : x <= y
         IN <<m>> \o SortedInts(S \ {m})

\* np.repeat(a, 3)
Repeat3(a) == Flatten([i \in DOMAIN a |-> << a[i], a[i], a[i] >>])

\* a mask that is read per triangle instead of per loop
bucket_misaligned(loop_indices, loop_material_idxs, material_idx) ==
    MaskSelect(loop_indices,
               [k \in DOMAIN loop_indices |->
                   loop_material_idxs[(k - 1) \div 3 + 1] = material_idx])

bucket_of(loop_indices, loop_material_idxs, material_idx) ==
    MaskSelect(loop_indices,
               [k \in DOMAIN loop_indices |-> loop_material_idxs[k] = material_idx])

prim_indices_of(blender_mesh, use_materials) ==
    LET loop_indices == loop_indices_of(blender_mesh)
        tri_material_idxs == [t \in DOMAIN blender_mesh.loop_triangles |->
                                 blender_mesh.loop_triangles[t].material_index]
        loop_material_idxs == Repeat3(tri_material_idxs)
        unique_material_idxs == SortedInts(Range(tri_material_idxs))
    IN IF use_materials = "NONE"
       THEN << [material_idx |-> -1, dot_indices |-> loop_indices] >>
       ELSE [m \in DOMAIN unique_material_idxs |->
               [material_idx |-> unique_material_idxs[m],
                dot_indices |-> bucket_of(loop_indices, loop_material_idxs,
                                          unique_material_idxs[m])]]

(***************************************************************************)
(* One primitive (lines 213-298): the dots of the bucket, deduplicated,    *)
(* and the attribute arrays read off the deduplicated dots.                *)
(***************************************************************************)
Reverse(s) == [i \in DOMAIN s |-> s[Len(s) + 1 - i]]

\* a dict built by successive assignments: a later assignment to a key wins
DictOf(assignments) == MergeAll(Reverse(assignments))

FieldIndex(fields, name) == CHOOSE f \in DOMAIN fields : fields[f] = name

Field_of_first_record(prim_dots, fields, name) ==
    [k \in DOMAIN prim_dots |-> prim_dots[1][FieldIndex(fields, name)]]

Field(prim_dots, fields, name) == Column(prim_dots, FieldIndex(fields, name))

Rows3(a, b, c) == [k \in DOMAIN a |-> << a[k], b[k], c[k] >>]

Rows4(a, b, c, d) == [k \in DOMAIN a |-> << a[k], b[k], c[k], d[k] >>]

Rows2(a, b) == [k \in DOMAIN a |-> << a[k], b[k] >>]

\* slot j of the influences of one vertex: its j-th bone, or (0, 0.0) past the end
influence_slot(bones, j) == IF j < Len(bones) THEN bones[j + 1] ELSE <<0, 0>>

\* the flat list of component c (1: joint, 2: weight) of joint set i
joint_set_list(vert_bones, blender_idxs, i, c) ==
    Flatten([k \in DOMAIN blender_idxs |->
               [j \in 1..JointSetSize |->
                   influence_slot(vert_bones[blender_idxs[k] + 1],
                                  JointSetSize * i + (j - 1))[c]]])

attributes_of(prim_dots, fields, cfg, vd) ==
    LET blender_idxs == Field(prim_dots, fields, "vertex_index")
        normals == Rows3(Field(prim_dots, fields, "nx"), Field(prim_dots, fields, "ny"),
                         Field(prim_dots, fields, "nz"))
        tangents == Rows4(Field(prim_dots, fields, "tx"), Field(prim_dots, fields, "ty"),
                          Field(prim_dots, fields, "tz"), Field(prim_dots, fields, "tw"))
        morph_ns(i) == Rows3(Field(prim_dots, fields, "morph" \o Num(i) \o "nx"),
                             Field(prim_dots, fields, "morph" \o Num(i) \o "ny"),
                             Field(prim_dots, fields, "morph" \o Num(i) \o "nz"))
    IN DictOf(
        << "POSITION" :> Take(vd.locs, blender_idxs) >>
        \o [i \in DOMAIN vd.morph_locs |->
              ("MORPH_POSITION_" \o Num(i - 1)) :> Take(vd.morph_locs[i], blender_idxs)]
        \o (IF cfg.use_normals THEN << "NORMAL" :> normals >> ELSE <<>>)
        \o (IF cfg.use_tangents THEN << "TANGENT" :> tangents >> ELSE <<>>)
        \o (IF cfg.use_morph_normals
            THEN Flatten([i \in DOMAIN cfg.key_blocks |->
                   << ("MORPH_NORMAL_" \o Num(i - 1)) :> morph_ns(i - 1) >>
                   \o (IF cfg.use_morph_tangents
                       THEN << ("MORPH_TANGENT_" \o Num(i - 1)) :>
                                  calc_morph_tangents(normals, morph_ns(i - 1), tangents) >>
                       ELSE <<>>)])
            ELSE <<>>)
        \o [i \in 1..cfg.tex_coord_max |->
              ("TEXCOORD_" \o Num(i - 1)) :>
                  Rows2(Field(prim_dots, fields, "uv" \o Num(i - 1) \o "x"),
                        Field(prim_dots, fields, "uv" \o Num(i - 1) \o "y"))]
        \o [i \in 1..cfg.color_max |->
              ("COLOR_" \o Num(i - 1)) :>
                  Rows4(Field(prim_dots, fields, "color" \o Num(i - 1) \o "r"),
                        Field(prim_dots, fields, "color" \o Num(i - 1) \o "g"),
                        Field(prim_dots, fields, "color" \o Num(i - 1) \o "b"),
                        Field(prim_dots, fields, "color" \o Num(i - 1) \o "a"))]
        \o (IF Truthy(cfg.skin)
            THEN Flatten([i \in 1..vd.num_joint_sets |->
                   << ("JOINTS_" \o Num(i - 1)) :>
                          joint_set_list(vd.vert_bones, blender_idxs, i - 1, 1),
                      ("WEIGHTS_" \o Num(i - 1)) :>
                          joint_set_list(vd.vert_bones, blender_idxs, i - 1, 2) >>])
            ELSE <<>>)
        \o [g \in DOMAIN vd.extra_vgroup_weights |->
              ("_VG_" \o vd.extra_vgroup_weights[g].name) :>
                  Take(vd.extra_vgroup_weights[g].weights, blender_idxs)]
        \o (IF cfg.use_facemaps
            THEN << "_FACEMAPS" :> Field(prim_dots, fields, "facemaps") >>
            ELSE <<>>))

primitives_of_entry_keeps_empty(entry, all_dots, fields, cfg, vd) ==
    LET u == np_unique(Take(all_dots, entry.dot_indices))
    IN << [attributes |-> attributes_of(u.values, fields, cfg, vd),
           indices |-> u.inverse,
           material |-> entry.material_idx] >>

\* the primitives appended for one entry of prim_indices: none for an empty bucket
primitives_of_entry(entry, all_dots, fields, cfg, vd) ==
    LET u == np_unique(Take(all_dots, entry.dot_indices))
    IN IF Len(u.values) = 0 THEN <<>>
       ELSE << [attributes |-> attributes_of(u.values, fields, cfg, vd),
                indices |-> u.inverse,
                material |-> entry.material_idx] >>

(***************************************************************************)
(* extract_primitives as a function of its arguments: the composition of   *)
(* the stages above.                                                       *)
(***************************************************************************)
extract_primitives(mesh, object, vertex_groups, mods, settings, gskin) ==
    LET cfg == settings_of(mesh, object, vertex_groups, mods, settings, gskin)
        vd == vert_data_of(mesh, object, vertex_groups, mods, settings, cfg)
        fields == dot_fields_of(cfg)
        all_dots == dots_of(mesh, object, settings, cfg)
        entries == prim_indices_of(mesh, cfg.use_materials)
    IN Flatten([e \in DOMAIN entries |->
                  primitives_of_entry(entries[e], all_dots, fields, cfg, vd)])

(***************************************************************************)
(* State: the arguments of extract_primitives, its local variables, the    *)
(* console, and the position in the function.                              *)
(***************************************************************************)
VARIABLES
    blender_mesh, blender_object, blender_vertex_groups, modifiers, export_settings,
    gathered_skin,        \* what gather_skin returns for the armature
    pc, console,
    config,               \* use_normals, use_tangents, ..., use_facemaps (lines 27-89)
    vert_data,            \* locs, morph_locs, vert_bones, num_joint_sets, extra_vgroup_weights
    dot_fields, dots, prim_indices,
    next_entry,           \* position of the loop over prim_indices.items()
    prim_dots, indices,   \* the deduplicated dots and the indices of the last iteration
    primitives,
    returned              \* the value returned, once pc = "done"

inputs == << blender_mesh, blender_object, blender_vertex_groups, modifiers,
             export_settings, gathered_skin >>

vars == << blender_mesh, blender_object, blender_vertex_groups, modifiers, export_settings,
           gathered_skin, pc, console, config, vert_data, dot_fields, dots, prim_indices,
           next_entry, prim_dots, indices, primitives, returned >>

\* the state on entry to extract_primitives with the given arguments
Entry(in) ==
    /\ blender_mesh = in.mesh
    /\ blender_object = in.object
    /\ blender_vertex_groups = in.vertex_groups
    /\ modifiers = in.modifiers
    /\ export_settings = in.settings
    /\ gathered_skin = in.skin
    /\ pc = "start"
    /\ console = <<>>
    /\ config = None
    /\ vert_data = None
    /\ dot_fields = <<>>
    /\ dots = <<>>
    /\ prim_indices = <<>>
    /\ next_entry = 1
    /\ prim_dots = <<>>
    /\ indices = <<>>
    /\ primitives = <<>>
    /\ returned = <<>>

\* lines 25-95
Prepare ==
    /\ pc = "start"
    /\ LET cfg == settings_of(blender_mesh, blender_object, blender_vertex_groups,
                              modifiers, export_settings, gathered_skin)
       IN /\ config' = cfg
          /\ console' = console \o <<"INFO">>
                          \o (IF tangents_warning(blender_mesh, export_settings)
                              THEN <<"WARNING">> ELSE <<>>)
          /\ vert_data' = vert_data_of(blender_mesh, blender_object, blender_vertex_groups,
                                       modifiers, export_settings, cfg)
    /\ pc' = "dots"
    /\ UNCHANGED << inputs, dot_fields, dots, prim_indices, next_entry, prim_dots, indices,
                    primitives, returned >>

\* lines 109-180
CollectDots ==
    /\ pc = "dots"
    /\ dot_fields' = dot_fields_of(config)
    /\ dots' = dots_of(blender_mesh, blender_object, export_settings, config)
    /\ pc' = "triangles"
    /\ UNCHANGED << inputs, console, config, vert_data, prim_indices, next_entry,
                    prim_dots, indices, primitives, returned >>

\* lines 184-208
SortIntoPrimitives ==
    /\ pc = "triangles"
    /\ prim_indices' = prim_indices_of(blender_mesh, config.use_materials)
    /\ next_entry' = 1
    /\ primitives' = <<>>
    /\ pc' = "primitives"
    /\ UNCHANGED << inputs, console, config, vert_data, dot_fields, dots, prim_dots,
                    indices, returned >>

\* one iteration of the loop of lines 210-298
CreatePrimitive ==
    /\ pc = "primitives"
    /\ next_entry <= Len(prim_indices)
    /\ primitives' = primitives
                       \o primitives_of_entry(prim_indices[next_entry], dots, dot_fields,
                                              config, vert_data)
    /\ prim_dots' = np_unique(Take(dots, prim_indices[next_entry].dot_indices)).values
    /\ indices' = np_unique(Take(dots, prim_indices[next_entry].dot_indices)).inverse
    /\ next_entry' = next_entry + 1
    /\ UNCHANGED << inputs, pc, console, config, vert_data, dot_fields, dots, prim_indices,
                    returned >>

\* lines 300-302
Return ==
    /\ pc = "primitives"
    /\ next_entry > Len(prim_indices)
    /\ console' = Append(console, "INFO")
    /\ returned' = primitives
    /\ pc' = "done"
    /\ UNCHANGED << inputs, config, vert_data, dot_fields, dots, prim_indices, next_entry,
                    prim_dots, indices, primitives >>

Next == Prepare \/ CollectDots \/ SortIntoPrimitives \/ CreatePrimitive \/ Return

(***************************************************************************)
(* Input families.  A mesh is built from its polygons (loop counts and     *)
(* material indices), the corners of its loops and its vertices;           *)
(* calc_loop_triangles is a fan triangulation of every polygon.            *)
(***************************************************************************)
PolyShapes ==
    { shape \in UNION { [1..n -> 3..(MaxTris + 2)] : n \in 0..MaxTris } :
        /\ SumSeq([p \in DOMAIN shape |-> shape[p] - 2]) <= MaxTris
        /\ SumSeq(shape) <= MaxLoops }

LoopStart(shape, p) == SumSeq([q \in 1..(p - 1) |-> shape[q]])

FanTriangles(shape, materials) ==
    Flatten([p \in DOMAIN shape |->
               [t \in 1..(shape[p] - 2) |->
                   [loops |-> << LoopStart(shape, p), LoopStart(shape, p) + t,
                                 LoopStart(shape, p) + t + 1 >>,
                    material_index |-> materials[p]]]])

Corner(v, uv) ==
    [vertex_index |-> v, normal |-> <<0, 0, 1>>, tangent |-> <<1, 0, 0>>,
     bitangent_sign |-> 1, uv |-> uv]

Vertex(co, groups) == [co |-> co, groups |-> groups]

Mesh(shape, materials, corners, vertices) ==
    [vertices |-> vertices,
     loops |-> [i \in DOMAIN corners |->
                  [vertex_index |-> corners[i].vertex_index, normal |-> corners[i].normal,
                   tangent |-> corners[i].tangent,
                   bitangent_sign |-> corners[i].bitangent_sign]],
     uv_layers |-> [active |-> TRUE, layers |-> << [i \in DOMAIN corners |-> corners[i].uv] >>],
     vertex_colors |-> <<>>,
     polygons |-> [p \in DOMAIN shape |->
                     [loop_start |-> LoopStart(shape, p), loop_total |-> shape[p],
                      material_index |-> materials[p]]],
     loop_triangles |-> FanTriangles(shape, materials),
     face_maps |-> <<>>,
     shape_keys |-> <<>>,
     calc_tangents_raises |-> FALSE]

Settings ==
    [NORMALS |-> FALSE, TANGENTS |-> FALSE, TEX_COORDS |-> TRUE, COLORS |-> FALSE,
     SKINS |-> FALSE, MORPH |-> FALSE, MORPH_NORMAL |-> FALSE, MORPH_TANGENT |-> FALSE,
     MATERIALS |-> "EXPORT", YUP |-> FALSE]

Input(mesh, settings) ==
    [mesh |-> mesh, object |-> None, vertex_groups |-> <<>>,
     modifiers |-> [is_none |-> TRUE, list |-> <<>>], settings |-> settings, skin |-> None]

\* Geometry family: every polygon layout within the bounds, every material
\* assignment, every assignment of the corner kinds to the loops.
MaterialIds == {0, 1}

CornerKinds == { Corner(0, <<0, 0>>), Corner(0, <<0, 1>>), Corner(1, <<0, 0>>) }

TwoVertices == << Vertex(<<0, 0, 0>>, <<>>), Vertex(<<1, 0, 0>>, <<>>) >>

Init ==
    \E shape \in PolyShapes :
      \E materials \in [DOMAIN shape -> MaterialIds] :
        \E corners \in [1..SumSeq(shape) -> CornerKinds] :
          \E mode \in {"NONE", "EXPORT"}, tex \in BOOLEAN :
            Entry(Input(Mesh(shape, materials, corners, TwoVertices),
                        [Settings EXCEPT !.MATERIALS = mode, !.TEX_COORDS = tex]))

Spec == Init /\ [][Next]_vars

(***************************************************************************)
(* Skin family: one triangle over two vertices, bound to an armature.      *)
(* One vertex carries any selection of the vertex groups (in group order)  *)
(* with weights of -1/2, 0, 1/2 or 1 on the first two groups and 1/2 or 1  *)
(* on the others; the other vertex carries one of two short lists.  The    *)
(* rigs name the vertex groups and the joints of the skin.                 *)
(***************************************************************************)
GroupNames(n) == [g \in 1..n |-> "g" \o ToString(g - 1)]

Rigs ==
    { [vertex_groups |-> GroupNames(MaxGroups), joints |-> GroupNames(MaxGroups)],
      [vertex_groups |-> GroupNames(MaxGroups), joints |-> Reverse(GroupNames(MaxGroups))],
      [vertex_groups |-> GroupNames(MaxGroups), joints |-> <<"root", "g2", "g0">>],
      [vertex_groups |-> GroupNames(MaxGroups - 1), joints |-> GroupNames(MaxGroups - 1)] }

WeightChoices ==
    { c \in [1..MaxGroups -> {<<>>, <<-1>>, <<0>>, <<1>>, <<2>>}] :
        \A g \in 3..MaxGroups : c[g] \in {<<>>, <<1>>, <<2>>} }

GroupList(c) ==
    Flatten([g \in DOMAIN c |-> [i \in DOMAIN c[g] |-> [group |-> g - 1, weight |-> c[g][i]]]])

ShortGroupLists ==
    { <<>>, << [group |-> 1, weight |-> 2], [group |-> 0, weight |-> 2] >> }

ArmatureObject(joints) ==
    [is_none |-> FALSE, name |-> "Armature", type |-> "ARMATURE",
     matrix_world |-> Mat4(IdentityRows, <<0, 0, 0>>), bones |-> joints]

MeshObject(matrix_world) ==
    [is_none |-> FALSE, parent_type |-> "OBJECT", parent_name |-> "",
     matrix_world |-> matrix_world]

ArmatureModifiers(armature) ==
    [is_none |-> FALSE,
     list |-> << [type |-> "ARMATURE", object |-> armature, use_vertex_groups |-> TRUE] >>]

Skin(joints) == [is_none |-> FALSE, joints |-> joints]

SkinTriangle == << Corner(1, <<0, 0>>), Corner(0, <<0, 0>>), Corner(1, <<0, 1>>) >>

InitSkin ==
    \E rig \in Rigs, c \in WeightChoices, short \in ShortGroupLists, first \in BOOLEAN :
        Entry([mesh |-> Mesh(<<3>>, <<0>>, SkinTriangle,
                             IF first
                             THEN << Vertex(<<0, 0, 0>>, GroupList(c)), Vertex(<<1, 0, 0>>, short) >>
                             ELSE << Vertex(<<0, 0, 0>>, short), Vertex(<<1, 0, 0>>, GroupList(c)) >>),
               object |-> MeshObject(Mat4(IdentityRows, <<0, 0, 0>>)),
               vertex_groups |-> rig.vertex_groups,
               modifiers |-> ArmatureModifiers(ArmatureObject(rig.joints)),
               settings |-> [Settings EXCEPT !.SKINS = TRUE],
               skin |-> Skin(rig.joints)])

SpecSkin == InitSkin /\ [][Next]_vars

(***************************************************************************)
(* Tangent family: one triangle whose corners differ in vertex, normal,    *)
(* tangent and UV; with or without a UV layer; calc_tangents raising or    *)
(* not; with or without shape keys (a basis and MaxKeys key blocks); every *)
(* combination of the normal, tangent, UV and morph settings.              *)
(***************************************************************************)
TangentCornerKinds ==
    { [vertex_index |-> 0, normal |-> <<0, 0, 1>>, tangent |-> <<1, 0, 0>>,
       bitangent_sign |-> 1, uv |-> <<0, 0>>],
      [vertex_index |-> 0, normal |-> <<0, 0, 1>>, tangent |-> <<0, 1, 0>>,
       bitangent_sign |-> 1, uv |-> <<0, 0>>],
      [vertex_index |-> 1, normal |-> <<1, 0, 0>>, tangent |-> <<0, 1, 0>>,
       bitangent_sign |-> -1, uv |-> <<0, 1>>] }

KeyBlock(is_basis, co, normals) ==
    [is_relative_key |-> is_basis, mute |-> FALSE, co |-> co, normals |-> normals]

\* a basis and n key blocks that move every vertex by (0, 0, k) and turn every
\* split normal to +y
RaisedKeys(vertices, corners, n) ==
    << KeyBlock(TRUE, [v \in DOMAIN vertices |-> vertices[v].co],
                [i \in DOMAIN corners |-> corners[i].normal]) >>
    \o [k \in 1..n |->
          KeyBlock(FALSE, [v \in DOMAIN vertices |-> VAdd(vertices[v].co, <<0, 0, k>>)],
                   [i \in DOMAIN corners |-> <<0, 1, 0>>])]

InitTangent ==
    \E corners \in [1..3 -> TangentCornerKinds] :
      \E use_n \in BOOLEAN, use_t \in BOOLEAN, has_uv \in BOOLEAN, raises \in BOOLEAN,
         has_keys \in BOOLEAN, morph_n \in BOOLEAN, morph_t \in BOOLEAN, tex \in BOOLEAN :
        Entry(Input(
            [Mesh(<<3>>, <<0>>, corners, TwoVertices) EXCEPT
                !.uv_layers = IF has_uv THEN @ ELSE [active |-> FALSE, layers |-> <<>>],
                !.calc_tangents_raises = raises,
                !.shape_keys = IF has_keys THEN RaisedKeys(TwoVertices, corners, MaxKeys)
                               ELSE <<>>],
            [Settings EXCEPT !.NORMALS = use_n, !.TANGENTS = use_t, !.TEX_COORDS = tex,
                             !.MORPH = TRUE, !.MORPH_NORMAL = morph_n,
                             !.MORPH_TANGENT = morph_t, !.MATERIALS = "NONE"]))

SpecTangent == InitTangent /\ [][Next]_vars

(***************************************************************************)
(* Morph family: one triangle over two vertices with a basis, a muted key  *)
(* block and MaxKeys active key blocks; split normals that may be zero;    *)
(* with or without an armature; object and armature placed by quarter      *)
(* turns and translations; Y-up conversion on or off.                      *)
(***************************************************************************)
MorphNormalChoices == { <<0, 0, 1>>, <<0, 1, 0>>, <<0, 0, 0>> }

MorphCorners(n) ==
    << [Corner(0, <<0, 0>>) EXCEPT !.normal = n],
       [Corner(1, <<0, 0>>) EXCEPT !.normal = <<1, 0, 0>>],
       [Corner(1, <<0, 1>>) EXCEPT !.normal = <<0, 0, 0>>] >>

MorphVertices(groups) == << Vertex(<<0, 0, 0>>, groups), Vertex(<<1, 2, 0>>, groups) >>

\* key block k moves every vertex by k * offset and gives the loops the normals
\* kn, zero and +y
MorphKeys(vertices, corners, offset, kn, n) ==
    << KeyBlock(TRUE, [v \in DOMAIN vertices |-> vertices[v].co],
                [i \in DOMAIN corners |-> corners[i].normal]),
       [KeyBlock(FALSE, [v \in DOMAIN vertices |-> <<9, 9, 9>>],
                 [i \in DOMAIN corners |-> <<1, 0, 0>>]) EXCEPT !.mute = TRUE] >>
    \o [k \in 1..n |->
          KeyBlock(FALSE,
                   [v \in DOMAIN vertices |-> VAdd(vertices[v].co, VScale(k, offset))],
                   [i \in DOMAIN corners |-> << kn, <<0, 0, 0>>, <<0, 1, 0>> >>[i]])]

Placements ==
    { Mat4(rows, t) : rows \in {IdentityRows, RotZRows, RotXRows},
                      t \in {<<0, 0, 0>>, <<1, 2, 3>>} }

InitMorph ==
    \E n \in MorphNormalChoices, kn \in MorphNormalChoices,
       offset \in {<<0, 0, 1>>, <<0, 2, 0>>} :
      \E rigged \in BOOLEAN, placement \in Placements,
         arm_rows \in {IdentityRows, RotZRows}, yup \in BOOLEAN, morph_n \in BOOLEAN :
        LET groups == IF rigged THEN << [group |-> 0, weight |-> 2] >> ELSE <<>>
            vertices == MorphVertices(groups)
            corners == MorphCorners(n)
            armature == [ArmatureObject(<<"g0">>) EXCEPT
                            !.matrix_world = Mat4(arm_rows, <<0, 1, 0>>)]
        IN Entry([mesh |-> [Mesh(<<3>>, <<0>>, corners, vertices) EXCEPT
                               !.shape_keys = MorphKeys(vertices, corners, offset, kn, MaxKeys)],
                  object |-> MeshObject(placement),
                  vertex_groups |-> IF rigged THEN <<"g0">> ELSE <<>>,
                  modifiers |-> IF rigged THEN ArmatureModifiers(armature)
                                ELSE [is_none |-> TRUE, list |-> <<>>],
                  settings |-> [Settings EXCEPT !.NORMALS = TRUE, !.MORPH = TRUE,
                                                !.MORPH_NORMAL = morph_n, !.SKINS = rigged,
                                                !.YUP = yup, !.MATERIALS = "NONE"],
                  skin |-> IF rigged THEN Skin(<<"g0">>) ELSE None])

SpecMorph == InitMorph /\ [][Next]_vars

(***************************************************************************)
(* Vertex-group family: two triangles of different materials over two      *)
(* vertices; up to MaxNames vertex groups; one vertex in any selection of  *)
(* the groups with weight 1/2 or 1, the other in none or in all; no        *)
(* modifier, or an armature modifier that uses vertex groups or does not,  *)
(* whose armature has up to two bones named after groups or not; skinning  *)
(* exported or not.                                                        *)
(***************************************************************************)
BoneNames == {"g0", "g1", "g2", "b0"}

BoneLists ==
    {<<>>} \cup { <<a>> : a \in BoneNames }
           \cup { <<a, b>> : a \in BoneNames, b \in BoneNames }

Memberships(n) == [1..n -> {<<>>, <<1>>, <<2>>}]

AllGroups(n) == [i \in 1..n |-> [group |-> n - i, weight |-> 2]]

GroupCorners ==
    << Corner(0, <<0, 0>>), Corner(1, <<0, 0>>), Corner(0, <<0, 1>>),
       Corner(1, <<0, 0>>), Corner(0, <<0, 0>>), Corner(1, <<0, 0>>) >>

InitGroups ==
    \E n \in 0..MaxNames :
      \E c \in Memberships(n), full \in BOOLEAN,
         bones \in { b \in BoneLists : Cardinality(Range(b)) = Len(b) },
         rig \in {"none", "groups", "envelopes"}, skins \in BOOLEAN :
        LET vertices == << Vertex(<<0, 0, 0>>, GroupList(c)),
                           Vertex(<<1, 0, 0>>, IF full THEN AllGroups(n) ELSE <<>>) >>
            modifier == [type |-> "ARMATURE", object |-> ArmatureObject(bones),
                         use_vertex_groups |-> rig = "groups"]
        IN Entry([mesh |-> Mesh(<<3, 3>>, <<0, 1>>, GroupCorners, vertices),
                  object |-> MeshObject(Mat4(IdentityRows, <<0, 0, 0>>)),
                  vertex_groups |-> GroupNames(n),
                  modifiers |-> IF rig = "none" THEN [is_none |-> TRUE, list |-> <<>>]
                                ELSE [is_none |-> FALSE, list |-> << modifier >>],
                  settings |-> [Settings EXCEPT !.SKINS = skins],
                  skin |-> IF skins /\ bones # <<>> THEN Skin(bones) ELSE None])

SpecGroups == InitGroups /\ [][Next]_vars

(***************************************************************************)
(* Attribute family: two triangles of one or two materials, or a quad,     *)
(* over two vertices, with two UV layers, a colour layer, a face map,      *)
(* MaxKeys key blocks, an armature whose bones are all the vertex groups   *)
(* but one; normals, tangents, morph normals, colours, skinning and face   *)
(* maps each exported or not, always converted to Y-up.                    *)
(***************************************************************************)
AttributeLayouts ==
    { [shape |-> <<3, 3>>, materials |-> <<0, 1>>],
      [shape |-> <<3, 3>>, materials |-> <<1, 1>>],
      [shape |-> <<4>>, materials |-> <<0>>] }

FixedCorners ==
    << [vertex_index |-> 1, normal |-> <<1, 0, 0>>, tangent |-> <<0, 1, 0>>,
        bitangent_sign |-> -1, uv |-> <<0, 1>>],
       [vertex_index |-> 0, normal |-> <<0, 0, 1>>, tangent |-> <<1, 0, 0>>,
        bitangent_sign |-> 1, uv |-> <<0, 0>>],
       [vertex_index |-> 0, normal |-> <<0, 0, 1>>, tangent |-> <<0, 1, 0>>,
        bitangent_sign |-> 1, uv |-> <<0, 0>>] >>

AttributeVertices ==
    << Vertex(<<0, 0, 0>>, << [group |-> 0, weight |-> 2], [group |-> 1, weight |-> 1],
                              [group |-> MaxGroups, weight |-> 1] >>),
       Vertex(<<1, 2, 0>>, [g \in 1..MaxGroups |->
                              [group |-> g - 1, weight |-> 1 + (g % 2)]]) >>

InitAttributes ==
    \E layout \in AttributeLayouts, free \in [1..3 -> TangentCornerKinds] :
      \E use_n \in BOOLEAN, use_t \in BOOLEAN, morph_n \in BOOLEAN, colors \in BOOLEAN,
         skins \in BOOLEAN, facemaps \in BOOLEAN :
        LET corners == free \o SubSeq(FixedCorners, 1, SumSeq(layout.shape) - 3)
            bones == GroupNames(MaxGroups)
        IN Entry([mesh |-> [Mesh(layout.shape, layout.materials, corners, AttributeVertices)
                              EXCEPT
                                !.uv_layers.layers =
                                    @ \o << [i \in DOMAIN corners |-> << i % 2, 0 >>] >>,
                                !.vertex_colors =
                                    << [i \in DOMAIN corners |->
                                          IF i % 2 = 0 THEN <<1, 0, -1, 1>>
                                          ELSE <<0, 1, 1, 0>>] >>,
                                !.face_maps =
                                    IF facemaps
                                    THEN << [q \in DOMAIN layout.shape |-> q - 2] >>
                                    ELSE <<>>,
                                !.shape_keys = RaisedKeys(AttributeVertices, corners, MaxKeys)],
                  object |-> MeshObject(Mat4(IdentityRows, <<0, 0, 0>>)),
                  vertex_groups |-> bones \o <<"extra">>,
                  modifiers |-> ArmatureModifiers(ArmatureObject(bones)),
                  settings |-> [Settings EXCEPT !.NORMALS = use_n, !.TANGENTS = use_t,
                                                !.COLORS = colors, !.SKINS = skins,
                                                !.MORPH = TRUE, !.MORPH_NORMAL = morph_n,
                                                !.MORPH_TANGENT = TRUE, !.YUP = TRUE],
                  skin |-> IF skins THEN Skin(bones) ELSE None])

SpecAttributes == InitAttributes /\ [][Next]_vars

(***************************************************************************)
(* Vocabulary of the properties: the corner stream of the mesh (three      *)
(* corners per loop triangle, in order), read off the arguments alone.     *)
(***************************************************************************)
TriCount == Len(blender_mesh.loop_triangles)

CornerPositions == 1..(3 * TriCount)

CornerLoop(k) == blender_mesh.loop_triangles[(k - 1) \div 3 + 1].loops[((k - 1) % 3) + 1]

CornerMaterial(k) == blender_mesh.loop_triangles[(k - 1) \div 3 + 1].material_index

MaterialsEnabled == export_settings.MATERIALS # "NONE"

\* the corner positions that belong to the bucket of material m
BucketPositions(m) ==
    IF MaterialsEnabled THEN {k \in CornerPositions : CornerMaterial(k) = m}
    ELSE CornerPositions

\* the loops of the corner positions S, in corner-stream order
Stream(S) ==
    [j \in 1..Cardinality(S) |->
        CornerLoop(CHOOSE k \in S : Cardinality({h \in S : h < k}) = j - 1)]

\* at least one iteration of the loop over prim_indices has run
Iterated == pc \in {"primitives", "done"} /\ next_entry > 1

LastEntry == prim_indices[next_entry - 1]

\* the composite records of the corners of the bucket of the last iteration
BucketRecords == Take(dots, Stream(BucketPositions(LastEntry.material_idx)))

VertexCount(p) == Len(p.attributes["POSITION"])

(***************************************************************************)
(* C1.  Dedup soundness: in every primitive, two corners of its material   *)
(* bucket get the same index exactly when their composite records are      *)
(* equal in every field, and the deduplicated dots hold no record twice.   *)
(***************************************************************************)
DedupSound ==
    Iterated =>
        /\ \A a, b \in DOMAIN prim_dots : prim_dots[a] = prim_dots[b] => a = b
        /\ prim_dots # <<>> =>
              LET p == primitives[Len(primitives)]
                  recs == BucketRecords
              IN /\ p.material = LastEntry.material_idx
                 /\ p.indices = indices
                 /\ DOMAIN p.indices = DOMAIN recs
                 /\ \A c1, c2 \in DOMAIN recs :
                       (p.indices[c1] = p.indices[c2]) <=> (recs[c1] = recs[c2])

\* a bucket in which two corners share a record and two corners of one vertex do not
DedupSoundWitness ==
    /\ Iterated
    /\ \E c1, c2 \in DOMAIN BucketRecords :
          c1 # c2 /\ BucketRecords[c1] = BucketRecords[c2] /\ indices[c1] = indices[c2]
    /\ \E c1, c2 \in DOMAIN BucketRecords :
          /\ BucketRecords[c1][1] = BucketRecords[c2][1]
          /\ BucketRecords[c1] # BucketRecords[c2]
          /\ indices[c1] # indices[c2]

(***************************************************************************)
(* C2.  Dedup ordering.  As claimed: the deduplicated dots list the        *)
(* distinct records in the order of their first corner in the bucket, so   *)
(* a single triangle with three distinct corners has indices 0, 1, 2.      *)
(***************************************************************************)
SingleTriangleScenario ==
    /\ TriCount = 1
    /\ ~MaterialsEnabled
    /\ config.tex_coord_max = 1
    /\ ~Truthy(config.skin)
    /\ \A c1, c2 \in 1..3 : c1 # c2 => dots[CornerLoop(c1) + 1] # dots[CornerLoop(c2) + 1]

DedupFirstSeenOrder ==
    /\ Iterated => prim_dots = FirstOccurrences(BucketRecords, {})
    /\ (pc = "done" /\ SingleTriangleScenario) =>
          /\ Len(returned) = 1
          /\ VertexCount(returned[1]) = 3
          /\ returned[1].indices = <<0, 1, 2>>

(***************************************************************************)
(* C2, amended.  The deduplicated dots list the distinct records of the    *)
(* bucket in ascending order, fields compared in dot_fields order; the     *)
(* index of a corner is the number of distinct records of the bucket that  *)
(* are smaller than its own.  A single triangle with three distinct        *)
(* corners yields one primitive with three vertices whose indices are a    *)
(* permutation of 0, 1, 2.                                                 *)
(***************************************************************************)
DedupAscendingOrder ==
    /\ Iterated =>
          /\ \A a \in 1..(Len(prim_dots) - 1) : LexLess(prim_dots[a], prim_dots[a + 1])
          /\ Range(prim_dots) = Range(BucketRecords)
          /\ \A c \in DOMAIN BucketRecords :
                indices[c] = Cardinality({r \in Range(BucketRecords) : LexLess(r, BucketRecords[c])})
    /\ (pc = "done" /\ SingleTriangleScenario) =>
          /\ Len(returned) = 1
          /\ VertexCount(returned[1]) = 3
          /\ Range(returned[1].indices) = {0, 1, 2}
          /\ Len(returned[1].indices) = 3

\* a single triangle whose three distinct corners are not in ascending order
DedupAscendingOrderWitness ==
    /\ pc = "done"
    /\ SingleTriangleScenario
    /\ returned[1].indices = <<2, 0, 1>>

(***************************************************************************)
(* C3.  Index validity: every index of a primitive is at least 0 and less  *)
(* than the number of rows of its POSITION attribute, and the number of    *)
(* indices is a multiple of 3.                                             *)
(***************************************************************************)
IndexValidity ==
    \A p \in Range(primitives) \cup Range(returned) :
        /\ \A k \in DOMAIN p.indices : 0 <= p.indices[k] /\ p.indices[k] < VertexCount(p)
        /\ Len(p.indices) % 3 = 0

\* a returned primitive with fewer vertices than corners whose last vertex is indexed
IndexValidityWitness ==
    /\ pc = "done"
    /\ \E p \in Range(returned) :
          /\ VertexCount(p) < Len(p.indices)
          /\ VertexCount(p) - 1 \in Range(p.indices)
          /\ Len(p.indices) = 6

(***************************************************************************)
(* C4.  Partition completeness: with materials enabled, every corner       *)
(* position is in exactly one bucket, that of the material of its          *)
(* triangle; a bucket keeps the corners in corner-stream order, so the     *)
(* three corners of a triangle stay together; reading the deduplicated     *)
(* dots through the indices gives back the records of the bucket; the      *)
(* index buffers of the returned primitives total 3 * triangle count.      *)
(***************************************************************************)
PartitionComplete ==
    MaterialsEnabled =>
        /\ pc \in {"primitives", "done"} =>
              /\ \A e \in DOMAIN prim_indices :
                    prim_indices[e].dot_indices
                        = Stream(BucketPositions(prim_indices[e].material_idx))
              /\ \A k \in CornerPositions :
                    Cardinality({e \in DOMAIN prim_indices :
                                    prim_indices[e].material_idx = CornerMaterial(k)}) = 1
        /\ Iterated => Take(prim_dots, indices) = BucketRecords
        /\ pc = "done" =>
              /\ SumSeq([p \in DOMAIN returned |-> Len(returned[p].indices)]) = 3 * TriCount
              /\ \A p \in DOMAIN returned :
                    Len(returned[p].indices)
                        = Cardinality(BucketPositions(returned[p].material))
              /\ \A p, q \in DOMAIN returned :
                    returned[p].material = returned[q].material => p = q

\* two primitives from triangles whose materials alternate in the corner stream
PartitionCompleteWitness ==
    /\ pc = "done"
    /\ MaterialsEnabled
    /\ Len(returned) = 2
    /\ TriCount >= 2
    /\ CornerMaterial(1) = 1
    /\ CornerMaterial(4) = 0

(***************************************************************************)
(* C5.  Primitive list shape: without triangles the list is empty; with    *)
(* materials "NONE" it is one primitive of material -1 holding all         *)
(* corners; otherwise one primitive per material index that occurs, in     *)
(* ascending order; every index buffer is 0-based.                         *)
(***************************************************************************)
OccurringMaterials == {CornerMaterial(k) : k \in CornerPositions}

PrimitiveListShape ==
    pc = "done" =>
        /\ TriCount = 0 => returned = <<>>
        /\ (~MaterialsEnabled /\ TriCount > 0) =>
              /\ Len(returned) = 1
              /\ returned[1].material = -1
              /\ Len(returned[1].indices) = 3 * TriCount
        /\ MaterialsEnabled =>
              /\ {returned[p].material : p \in DOMAIN returned} = OccurringMaterials
              /\ \A p \in 1..(Len(returned) - 1) :
                    returned[p].material < returned[p + 1].material
        /\ \A p \in DOMAIN returned :
              /\ Len(returned[p].indices) > 0
              /\ Range(returned[p].indices) = 0..(VertexCount(returned[p]) - 1)

\* two primitives in ascending material order from triangles in descending order
PrimitiveListShapeWitness ==
    /\ pc = "done"
    /\ MaterialsEnabled
    /\ TriCount = 2
    /\ CornerMaterial(1) > CornerMaterial(4)
    /\ Len(returned) = 2
    /\ returned[1].material < returned[2].material

\* the empty mesh with materials "NONE": an empty bucket and no primitive
EmptyMeshReached == pc = "done" /\ TriCount = 0 /\ ~MaterialsEnabled /\ returned = <<>>

(***************************************************************************)
(* Vocabulary of the skin properties, read off the arguments alone: the    *)
(* joint of a vertex group, the influences a vertex retains, and their     *)
(* packed order.                                                           *)
(***************************************************************************)
SkinExported == pc # "start" /\ Truthy(config.skin)

\* the joint index of vertex group g, -1 when the group has no joint
GroupJoint(g) ==
    IF /\ g + 1 \in DOMAIN blender_vertex_groups
       /\ \E j \in DOMAIN gathered_skin.joints :
             gathered_skin.joints[j] = blender_vertex_groups[g + 1]
    THEN (CHOOSE j \in DOMAIN gathered_skin.joints :
             gathered_skin.joints[j] = blender_vertex_groups[g + 1]) - 1
    ELSE -1

IsMappedInfluence(ge) == ge.weight > 0 /\ GroupJoint(ge.group) # -1

IsUnmappedInfluence(ge) == GroupJoint(ge.group) = -1

\* the positive-weight influences of vertex v that have a joint, in group-list order
MappedInfluences(v) ==
    LET kept == SelectSeq(blender_mesh.vertices[v + 1].groups, IsMappedInfluence)
    IN [i \in DOMAIN kept |-> << GroupJoint(kept[i].group), kept[i].weight >>]

\* the retained influence list of vertex v, after the synthetic substitution
Retained(v) ==
    IF MappedInfluences(v) = <<>> THEN << <<0, WeightUnit>> >> ELSE MappedInfluences(v)

\* position of entry i of the list when ordered by weight descending, ties in list order
PackedRank(list, i) ==
    Cardinality({h \in DOMAIN list : list[h][2] > list[i][2]})
    + Cardinality({h \in DOMAIN list : h < i /\ list[h][2] = list[i][2]}) + 1

Packed(v) ==
    [j \in DOMAIN Retained(v) |->
        Retained(v)[CHOOSE i \in DOMAIN Retained(v) : PackedRank(Retained(v), i) = j]]

MaxInfluences ==
    Max({0} \cup {Len(Retained(v - 1)) : v \in DOMAIN blender_mesh.vertices})

JointsName(i) == "JOINTS_" \o ToString(i)

WeightsName(i) == "WEIGHTS_" \o ToString(i)

\* every JOINTS_i / WEIGHTS_i name a primitive of these meshes could carry
SkinAttributeNames(n) == {JointsName(i) : i \in 0..(n - 1)} \cup {WeightsName(i) : i \in 0..(n - 1)}

\* influence slot j (0-based) of deduplicated vertex k (1-based) of primitive p
SlotOf(p, k, j) ==
    << p.attributes[JointsName(j \div JointSetSize)][JointSetSize * (k - 1) + (j % JointSetSize) + 1],
       p.attributes[WeightsName(j \div JointSetSize)][JointSetSize * (k - 1) + (j % JointSetSize) + 1] >>

\* the last iteration appended a primitive of a skinned mesh
SkinnedPrimitive == Iterated /\ SkinExported /\ prim_dots # <<>>

LastPrimitive == primitives[Len(primitives)]

\* the source vertex of deduplicated vertex k of the last primitive
SourceVertex(k) == prim_dots[k][1]

SlotCount == JointSetSize * vert_data.num_joint_sets

(***************************************************************************)
(* C6.  Skin packing layout: num_joint_sets is ceil(M / 4) for M the       *)
(* longest retained influence list; a primitive carries exactly JOINTS_i   *)
(* and WEIGHTS_i for i < num_joint_sets; slot j of a deduplicated vertex   *)
(* holds entry j of its source vertex's list ordered by weight descending, *)
(* ties in group-list order, or (0, 0.0) past the end; weights do not      *)
(* increase across the slots and no influence is truncated.                *)
(***************************************************************************)
SkinPackingLayout ==
    /\ SkinExported =>
          /\ JointSetSize * vert_data.num_joint_sets >= MaxInfluences
          /\ JointSetSize * (vert_data.num_joint_sets - 1) < MaxInfluences
    /\ SkinnedPrimitive =>
          /\ DOMAIN LastPrimitive.attributes \cap SkinAttributeNames(MaxGroups + 1)
                = SkinAttributeNames(vert_data.num_joint_sets)
          /\ \A n \in SkinAttributeNames(vert_data.num_joint_sets) :
                Len(LastPrimitive.attributes[n]) = JointSetSize * Len(prim_dots)
          /\ \A k \in DOMAIN prim_dots :
                LET packed == Packed(SourceVertex(k))
                IN /\ Len(packed) <= SlotCount
                   /\ \A j \in 0..(SlotCount - 1) :
                         SlotOf(LastPrimitive, k, j)
                            = IF j < Len(packed) THEN packed[j + 1] ELSE <<0, 0>>
                   /\ \A j \in 1..(SlotCount - 1) :
                         SlotOf(LastPrimitive, k, j)[2] <= SlotOf(LastPrimitive, k, j - 1)[2]

\* two joint sets, and a vertex whose equal weights sit on joints in descending order
SkinPackingLayoutWitness ==
    /\ SkinnedPrimitive
    /\ pc = "done"
    /\ vert_data.num_joint_sets = 2
    /\ \E k \in DOMAIN prim_dots :
          /\ Len(Retained(SourceVertex(k))) = JointSetSize + 1
          /\ \E j \in 1..(SlotCount - 1) :
                /\ SlotOf(returned[1], k, j)[2] = SlotOf(returned[1], k, j - 1)[2]
                /\ SlotOf(returned[1], k, j)[2] > 0
                /\ SlotOf(returned[1], k, j)[1] < SlotOf(returned[1], k, j - 1)[1]
    /\ \E k \in DOMAIN prim_dots : Len(Retained(SourceVertex(k))) = 1

(***************************************************************************)
(* C7.  Weight invariant: the first WEIGHTS_0 slot of every deduplicated   *)
(* vertex is positive, no weight slot is negative, and a vertex without a  *)
(* positive-weight influence on a joint holds joint 0 / weight 1.0 in its  *)
(* first slot and (0, 0.0) in all the others.                              *)
(***************************************************************************)
WeightInvariant ==
    SkinnedPrimitive =>
        /\ JointsName(0) \in DOMAIN LastPrimitive.attributes
        /\ WeightsName(0) \in DOMAIN LastPrimitive.attributes
        /\ \A k \in DOMAIN prim_dots :
              /\ LastPrimitive.attributes[WeightsName(0)][JointSetSize * (k - 1) + 1] > 0
              /\ \A j \in 0..(SlotCount - 1) : SlotOf(LastPrimitive, k, j)[2] >= 0
              /\ MappedInfluences(SourceVertex(k)) = <<>> =>
                    /\ SlotOf(LastPrimitive, k, 0) = <<0, WeightUnit>>
                    /\ \A j \in 1..(SlotCount - 1) : SlotOf(LastPrimitive, k, j) = <<0, 0>>

\* a primitive with a vertex without groups and a vertex whose groups all fail:
\* a weight below zero, a weight of zero, a group without joint
WeightInvariantWitness ==
    /\ SkinnedPrimitive
    /\ pc = "done"
    /\ \E k \in DOMAIN prim_dots : blender_mesh.vertices[SourceVertex(k) + 1].groups = <<>>
    /\ \E k \in DOMAIN prim_dots :
          LET groups == blender_mesh.vertices[SourceVertex(k) + 1].groups
          IN /\ MappedInfluences(SourceVertex(k)) = <<>>
             /\ \E g \in DOMAIN groups : groups[g].weight < 0
             /\ \E g \in DOMAIN groups : groups[g].weight = 0
             /\ \E g \in DOMAIN groups : groups[g].weight > 0 /\ IsUnmappedInfluence(groups[g])

(***************************************************************************)
(* C8.  Unmapped-influence handling: an influence on a vertex group        *)
(* without joint (its name is no joint name, or its index is outside the   *)
(* vertex-group table) appears in no slot and counts neither for its       *)
(* vertex nor for num_joint_sets; the other influences of the vertex are   *)
(* all kept, each once, with their joint and weight; no warning is         *)
(* reported.                                                               *)
(***************************************************************************)
CountIn(list, x) == Cardinality({i \in DOMAIN list : list[i] = x})

UnmappedDropped ==
    /\ "WARNING" \notin Range(console)
    /\ SkinExported =>
          \A v \in DOMAIN vert_data.vert_bones :
              Len(vert_data.vert_bones[v]) = Len(Retained(v - 1))
    /\ SkinnedPrimitive =>
          \A k \in DOMAIN prim_dots :
              LET slots == [j \in 1..SlotCount |-> SlotOf(LastPrimitive, k, j - 1)]
              IN /\ \A j \in DOMAIN slots : slots[j][1] >= 0
                 /\ \A j \in DOMAIN slots :
                       slots[j] # <<0, 0>> =>
                          CountIn(slots, slots[j]) = CountIn(Retained(SourceVertex(k)), slots[j])
                 /\ \A i \in DOMAIN Retained(SourceVertex(k)) :
                       Retained(SourceVertex(k))[i] \in Range(slots)

\* a vertex whose heaviest influence is on a group whose name is no joint, next to
\* influences that are kept
UnmappedDroppedWitness ==
    /\ SkinnedPrimitive
    /\ pc = "done"
    /\ \E k \in DOMAIN prim_dots :
          LET groups == blender_mesh.vertices[SourceVertex(k) + 1].groups
          IN /\ Len(MappedInfluences(SourceVertex(k))) >= 2
             /\ \E g \in DOMAIN groups :
                   /\ IsUnmappedInfluence(groups[g])
                   /\ groups[g].group + 1 \in DOMAIN blender_vertex_groups
                   /\ \A h \in DOMAIN groups : groups[h].weight <= groups[g].weight
                   /\ \E h \in DOMAIN groups : groups[h].weight < groups[g].weight
                                                  /\ IsMappedInfluence(groups[h])

\* a vertex with an influence on a group index outside the vertex-group table
GroupOutsideTableReached ==
    /\ SkinnedPrimitive
    /\ pc = "done"
    /\ \E k \in DOMAIN prim_dots :
          LET groups == blender_mesh.vertices[SourceVertex(k) + 1].groups
          IN \E g \in DOMAIN groups :
                /\ groups[g].weight > 0
                /\ groups[g].group + 1 \notin DOMAIN blender_vertex_groups

(***************************************************************************)
(* C9.  Tangent degradation.  Tangents are requested but cannot be         *)
(* produced when normals are disabled, when there is no active UV layer,   *)
(* or when calc_tangents raises.                                           *)
(***************************************************************************)
NoActiveUvLayer ==
    ~blender_mesh.uv_layers.active \/ Len(blender_mesh.uv_layers.layers) = 0

\* calc_tangents is called and raises
TangentComputationRaised ==
    /\ export_settings.NORMALS
    /\ ~NoActiveUvLayer
    /\ blender_mesh.calc_tangents_raises

TangentsUnavailable ==
    /\ export_settings.TANGENTS
    /\ (~export_settings.NORMALS \/ NoActiveUvLayer \/ TangentComputationRaised)

TangentAttributeNames ==
    {"TANGENT"} \cup {"MORPH_TANGENT_" \o ToString(i) : i \in 0..MaxKeys}

\* tangents are disabled for the whole mesh and everything else is exported as it
\* is with tangents not requested
TangentsDisabled ==
    /\ pc # "start" => ~config.use_tangents /\ ~config.use_morph_tangents
    /\ Range(dot_fields) \cap {"tx", "ty", "tz", "tw"} = {}
    /\ \A p \in Range(primitives) \cup Range(returned) :
          DOMAIN p.attributes \cap TangentAttributeNames = {}
    /\ pc = "done" =>
          returned = extract_primitives(blender_mesh, blender_object, blender_vertex_groups,
                                        modifiers,
                                        [export_settings EXCEPT !.TANGENTS = FALSE],
                                        gathered_skin)

\* As claimed: a WARNING is reported when there is no active UV layer or the
\* computation raised.
TangentDegradationWarned ==
    TangentsUnavailable =>
        /\ TangentsDisabled
        /\ (pc # "start" /\ (NoActiveUvLayer \/ TangentComputationRaised)) =>
              "WARNING" \in Range(console)

(***************************************************************************)
(* C9, amended.  Whenever tangents are requested but cannot be produced,   *)
(* tangents are disabled for the whole mesh and all other enabled          *)
(* attributes are exported unchanged; a WARNING is reported exactly when   *)
(* calc_tangents was called and raised, and none when normals are disabled *)
(* or there is no active UV layer.                                         *)
(***************************************************************************)
TangentDegradation ==
    TangentsUnavailable =>
        /\ TangentsDisabled
        /\ pc # "start" => ("WARNING" \in Range(console) <=> TangentComputationRaised)

\* calc_tangents raised on a mesh exported with normals, UVs and morph normals
TangentDegradationWitness ==
    /\ pc = "done"
    /\ TangentsUnavailable
    /\ TangentComputationRaised
    /\ export_settings.MORPH_TANGENT
    /\ console = <<"INFO", "WARNING", "INFO">>
    /\ Len(returned) = 1
    /\ {"NORMAL", "TEXCOORD_0", "MORPH_NORMAL_0"} \subseteq DOMAIN returned[1].attributes

\* tangents requested on a mesh without UV layer: disabled without a warning
NoUvLayerReached ==
    /\ pc = "done"
    /\ export_settings.TANGENTS
    /\ export_settings.NORMALS
    /\ NoActiveUvLayer
    /\ console = <<"INFO", "INFO">>

(***************************************************************************)
(* C10.  Morph delta round-trip.  The fully transformed value of a         *)
(* position is the position re-based by the object's world matrix when the *)
(* mesh is skinned, then remapped to Y-up when requested; that of a normal *)
(* is the normal turned by the object's rotation and normalised when the   *)
(* mesh is skinned, replaced by +Z when zero, then remapped to Y-up.       *)
(***************************************************************************)
Rebased == Truthy(config.armature) /\ Truthy(blender_object)

Remapped(v) == IF export_settings.YUP THEN << v[1], v[3], -v[2] >> ELSE v

TransformedPosition(co) ==
    Remapped(IF Rebased
             THEN VAdd(MatVec3(blender_object.matrix_world.rows, co),
                       blender_object.matrix_world.translation)
             ELSE co)

TransformedNormal(n) ==
    LET turned == IF Rebased
                  THEN normalize_vec(MatVec3(blender_object.matrix_world.rows, n))
                  ELSE n
    IN Remapped(IF turned = <<0, 0, 0>> THEN <<0, 0, 1>> ELSE turned)

\* the shape keys that are neither the basis nor muted, in order
ActiveMorphTargets ==
    LET keys == blender_mesh.shape_keys
    IN MaskSelect(keys, [k \in DOMAIN keys |-> ~keys[k].is_relative_key /\ ~keys[k].mute])

MorphName(kind, i) == "MORPH_" \o kind \o "_" \o ToString(i - 1)

\* C10: for every primitive, every active morph target and every corner, read
\* through the index buffer: the exported position (normal) delta is the fully
\* transformed morphed value minus the fully transformed base value, and the
\* exported base plus the exported delta is the fully transformed morphed value,
\* with and without an armature and with and without Y-up conversion.
MorphRoundTrip ==
    (Iterated /\ Len(primitives) > 0) =>
        LET a == LastPrimitive.attributes
        IN /\ Len(config.key_blocks) = Len(ActiveMorphTargets)
           /\ \A i \in DOMAIN ActiveMorphTargets : \A c \in CornerPositions :
                LET target == ActiveMorphTargets[i]
                    at == indices[c] + 1
                    loop == CornerLoop(c) + 1
                    vertex == blender_mesh.loops[loop].vertex_index + 1
                    base_co == TransformedPosition(blender_mesh.vertices[vertex].co)
                    morphed_co == TransformedPosition(target.co[vertex])
                    base_n == TransformedNormal(blender_mesh.loops[loop].normal)
                    morphed_n == TransformedNormal(target.normals[loop])
                IN /\ MorphName("POSITION", i) \in DOMAIN a
                   /\ a["POSITION"][at] = base_co
                   /\ a[MorphName("POSITION", i)][at] = VSub(morphed_co, base_co)
                   /\ VAdd(a["POSITION"][at], a[MorphName("POSITION", i)][at]) = morphed_co
                   /\ export_settings.MORPH_NORMAL =>
                        /\ MorphName("NORMAL", i) \in DOMAIN a
                        /\ a["NORMAL"][at] = base_n
                        /\ a[MorphName("NORMAL", i)][at] = VSub(morphed_n, base_n)
                        /\ VAdd(a["NORMAL"][at], a[MorphName("NORMAL", i)][at]) = morphed_n

\* a skinned mesh placed by a quarter turn and a translation, converted to Y-up,
\* whose base normal is zero somewhere and whose morphed normal is zero elsewhere
MorphRoundTripWitness ==
    /\ pc = "done"
    /\ Len(returned) = 1
    /\ Rebased
    /\ export_settings.YUP
    /\ export_settings.MORPH_NORMAL
    /\ blender_object.matrix_world.rows # IdentityRows
    /\ blender_object.matrix_world.translation # <<0, 0, 0>>
    /\ Len(ActiveMorphTargets) = MaxKeys
    /\ Len(ActiveMorphTargets) < Len(blender_mesh.shape_keys) - 1
    /\ \E c \in DOMAIN blender_mesh.loops :
          /\ blender_mesh.loops[c].normal = <<0, 0, 0>>
          /\ ActiveMorphTargets[1].normals[c] # <<0, 0, 0>>
    /\ \E c \in DOMAIN blender_mesh.loops :
          /\ blender_mesh.loops[c].normal # <<0, 0, 0>>
          /\ ActiveMorphTargets[1].normals[c] = <<0, 0, 0>>
    /\ returned[1].attributes["MORPH_POSITION_0"][1] # <<0, 0, 0>>
    /\ \E k \in DOMAIN returned[1].attributes["MORPH_NORMAL_0"] :
          returned[1].attributes["MORPH_NORMAL_0"][k] # <<0, 0, 0>>

\* the same mesh exported without an armature and without Y-up conversion
UnskinnedMorphReached ==
    /\ pc = "done"
    /\ Len(returned) = 1
    /\ ~Rebased
    /\ ~export_settings.YUP
    /\ "MORPH_NORMAL_0" \in DOMAIN returned[1].attributes
    /\ returned[1].attributes["MORPH_POSITION_0"][1] # <<0, 0, 0>>

(***************************************************************************)
(* C11.  Extra vertex groups.  A vertex group is consumed by the skin      *)
(* binding when its name is the name of a bone of an armature modifier     *)
(* that uses vertex groups.                                                *)
(***************************************************************************)
ConsumedNames ==
    IF modifiers.is_none THEN {}
    ELSE UNION { Range(modifiers.list[m].object.bones) :
                    m \in { k \in DOMAIN modifiers.list :
                              /\ modifiers.list[k].type = "ARMATURE"
                              /\ modifiers.list[k].use_vertex_groups } }

ExtraGroups == { g \in DOMAIN blender_vertex_groups : blender_vertex_groups[g] \notin ConsumedNames }

VgName(g) == "_VG_" \o blender_vertex_groups[g]

\* the weight of a vertex in group g, 0.0 when it is not in the group
WeightIn(vertex, g) ==
    IF \E k \in DOMAIN vertex.groups : vertex.groups[k].group = g - 1
    THEN LET k == CHOOSE k \in DOMAIN vertex.groups : vertex.groups[k].group = g - 1
         IN vertex.groups[k].weight
    ELSE 0

\* the primitive of the last iteration carries _VG_<name> for the groups of G, with
\* the weight of each deduplicated vertex's source vertex, and for no other group
CarriesExactly(G) ==
    LET a == LastPrimitive.attributes
    IN /\ \A g \in G :
            /\ VgName(g) \in DOMAIN a
            /\ Len(a[VgName(g)]) = Len(prim_dots)
            /\ \A k \in DOMAIN prim_dots :
                  a[VgName(g)][k] = WeightIn(blender_mesh.vertices[SourceVertex(k) + 1], g)
       /\ \A g \in DOMAIN blender_vertex_groups \ G : VgName(g) \notin DOMAIN a
       /\ Cardinality({VgName(g) : g \in G}) = Cardinality(G)

\* C11: every primitive carries exactly one _VG_<name> attribute for every vertex
\* group not consumed by the skin binding, holding each deduplicated vertex's
\* weight in the group, and none for a consumed group, for every combination of
\* group names and bone names.
ExtraGroupsExported ==
    (Iterated /\ Len(primitives) > 0) => CarriesExactly(ExtraGroups)

\* the number of names consumed by the skin binding equals the number of vertex
\* groups
CountsCoincide == Cardinality(ConsumedNames) = Len(blender_vertex_groups)

\* What the code does: the groups are exported as C11 states unless the counts
\* coincide, and then no group is exported at all.
ExtraGroupsUnlessCountsCoincide ==
    (Iterated /\ Len(primitives) > 0) =>
        CarriesExactly(IF CountsCoincide THEN {} ELSE ExtraGroups)

\* as many bones as vertex groups, one group not named by any bone, a vertex with a
\* weight in it, and no _VG_ attribute for it in the returned primitives
ExtraGroupLostReached ==
    /\ pc = "done"
    /\ Len(returned) = 2
    /\ CountsCoincide
    /\ \E g \in ExtraGroups :
          /\ \E v \in DOMAIN blender_mesh.vertices : WeightIn(blender_mesh.vertices[v], g) > 0
          /\ \A p \in Range(returned) : VgName(g) \notin DOMAIN p.attributes

\* fewer bones than vertex groups: the unconsumed group is exported, the consumed
\* one is not
ExtraGroupsExportedReached ==
    /\ pc = "done"
    /\ Len(returned) = 2
    /\ ~CountsCoincide
    /\ ExtraGroups # {}
    /\ ExtraGroups # DOMAIN blender_vertex_groups
    /\ \A p \in Range(returned) :
          \A g \in ExtraGroups :
              /\ VgName(g) \in DOMAIN p.attributes
              /\ \E k \in DOMAIN p.attributes[VgName(g)] : p.attributes[VgName(g)][k] > 0

(***************************************************************************)
(* C12.  Attribute sizing and sourcing.  The value of each attribute that  *)
(* belongs to a composite record: the per-corner attributes are the        *)
(* record's own fields, the per-vertex attributes are those of the         *)
(* record's vertex_index.                                                  *)
(***************************************************************************)
HasField(name) == name \in Range(dot_fields)

FieldOf(rec, name) == rec[CHOOSE f \in DOMAIN dot_fields : dot_fields[f] = name]

Triple(rec, x, y, z) == << FieldOf(rec, x), FieldOf(rec, y), FieldOf(rec, z) >>

LayerCount(prefix, suffix) ==
    Cardinality({i \in 0..MaxLoops : HasField(prefix \o ToString(i) \o suffix)})

\* the morph tangent delta of a record: its tangent turned as its morphed normal is
\* turned onto its normal, minus its tangent
MorphTangentOf(rec, i) ==
    LET n == Triple(rec, "nx", "ny", "nz")
        dn == Triple(rec, "morph" \o ToString(i) \o "nx", "morph" \o ToString(i) \o "ny",
                     "morph" \o ToString(i) \o "nz")
        t == Triple(rec, "tx", "ty", "tz")
    IN VSub(rotate_by_difference(VAdd(n, dn), n, t), t)

\* attribute name -> value, for every attribute but JOINTS_i and WEIGHTS_i
ValuesOf(rec) ==
    LET vertex == FieldOf(rec, "vertex_index") + 1
    IN MergeAll(
        << "POSITION" :> vert_data.locs[vertex] >>
        \o [i \in DOMAIN vert_data.morph_locs |->
              ("MORPH_POSITION_" \o ToString(i - 1)) :> vert_data.morph_locs[i][vertex]]
        \o [g \in DOMAIN vert_data.extra_vgroup_weights |->
              ("_VG_" \o vert_data.extra_vgroup_weights[g].name) :>
                  vert_data.extra_vgroup_weights[g].weights[vertex]]
        \o (IF HasField("nx") THEN << "NORMAL" :> Triple(rec, "nx", "ny", "nz") >> ELSE <<>>)
        \o (IF HasField("tx")
            THEN << "TANGENT" :> Triple(rec, "tx", "ty", "tz") \o << FieldOf(rec, "tw") >> >>
            ELSE <<>>)
        \o [i \in 1..LayerCount("uv", "x") |->
              ("TEXCOORD_" \o ToString(i - 1)) :>
                  << FieldOf(rec, "uv" \o ToString(i - 1) \o "x"),
                     FieldOf(rec, "uv" \o ToString(i - 1) \o "y") >>]
        \o [i \in 1..LayerCount("color", "r") |->
              ("COLOR_" \o ToString(i - 1)) :>
                  << FieldOf(rec, "color" \o ToString(i - 1) \o "r"),
                     FieldOf(rec, "color" \o ToString(i - 1) \o "g"),
                     FieldOf(rec, "color" \o ToString(i - 1) \o "b"),
                     FieldOf(rec, "color" \o ToString(i - 1) \o "a") >>]
        \o [i \in 1..LayerCount("morph", "nx") |->
              ("MORPH_NORMAL_" \o ToString(i - 1)) :>
                  Triple(rec, "morph" \o ToString(i - 1) \o "nx",
                         "morph" \o ToString(i - 1) \o "ny",
                         "morph" \o ToString(i - 1) \o "nz")]
        \o (IF HasField("tx")
            THEN [i \in 1..LayerCount("morph", "nx") |->
                    ("MORPH_TANGENT_" \o ToString(i - 1)) :> MorphTangentOf(rec, i - 1)]
            ELSE <<>>)
        \o (IF HasField("facemaps") THEN << "_FACEMAPS" :> FieldOf(rec, "facemaps") >>
            ELSE <<>>))

\* influence slot j (0-based) of a vertex: its j-th (joint, weight), (0, 0.0) past
\* the end
InfluenceOf(vertex, j) ==
    IF j < Len(vert_data.vert_bones[vertex + 1]) THEN vert_data.vert_bones[vertex + 1][j + 1]
    ELSE <<0, 0>>

JointSetNames ==
    IF Truthy(config.skin) THEN SkinAttributeNames(vert_data.num_joint_sets) ELSE {}

\* entry k of every array of the last primitive is the value of record rec
ReadsBack(k, rec) ==
    LET a == LastPrimitive.attributes
    IN /\ \A name \in DOMAIN a \ JointSetNames : a[name][k] = ValuesOf(rec)[name]
       /\ JointSetNames # {} =>
             \A j \in 0..(SlotCount - 1) :
                 SlotOf(LastPrimitive, k, j) = InfluenceOf(FieldOf(rec, "vertex_index"), j)

\* C12: in every primitive with N deduplicated vertices, every attribute array has
\* N entries (4 N slots for JOINTS_i / WEIGHTS_i), entry k is the value of
\* deduplicated record k, per-corner attributes from the record's fields and
\* per-vertex attributes by the record's vertex_index, and every triangle corner
\* reads back its own values through the index buffer.
AttributeSourcing ==
    (Iterated /\ Len(primitives) > 0) =>
        LET a == LastPrimitive.attributes
            N == Len(prim_dots)
            corners == Stream(BucketPositions(LastEntry.material_idx))
        IN /\ N > 0
           /\ DOMAIN a \ JointSetNames \subseteq DOMAIN ValuesOf(prim_dots[1])
           /\ JointSetNames \subseteq DOMAIN a
           /\ \A name \in DOMAIN a :
                 Len(a[name]) = IF name \in JointSetNames THEN JointSetSize * N ELSE N
           /\ \A k \in 1..N : ReadsBack(k, prim_dots[k])
           /\ Len(LastPrimitive.indices) = Len(corners)
           /\ \A c \in DOMAIN corners :
                 /\ LastPrimitive.indices[c] \in 0..(N - 1)
                 /\ FieldOf(dots[corners[c] + 1], "vertex_index")
                       = blender_mesh.loops[corners[c] + 1].vertex_index
                 /\ ReadsBack(LastPrimitive.indices[c] + 1, dots[corners[c] + 1])

\* a primitive with every kind of attribute, two joint sets, and fewer
\* deduplicated vertices than corners but more than source vertices
AttributeSourcingWitness ==
    /\ pc = "done"
    /\ Len(returned) = 1
    /\ LET a == LastPrimitive.attributes
       IN /\ { "POSITION", "MORPH_POSITION_0", "NORMAL", "TANGENT", "MORPH_NORMAL_0",
               "MORPH_TANGENT_0", "TEXCOORD_0", "TEXCOORD_1", "COLOR_0", "JOINTS_0",
               "WEIGHTS_0", "JOINTS_1", "WEIGHTS_1", "_VG_extra", "_FACEMAPS" }
                \subseteq DOMAIN a
          /\ Len(prim_dots) < Len(LastPrimitive.indices)
          /\ Len(prim_dots) > Cardinality({prim_dots[k][1] : k \in DOMAIN prim_dots})
          /\ \E k \in DOMAIN prim_dots : a["_VG_extra"][k] > 0
          /\ \E k \in DOMAIN prim_dots : a["MORPH_TANGENT_0"][k] # <<0, 0, 0>>
          /\ \E k \in DOMAIN a["WEIGHTS_1"] : a["WEIGHTS_1"][k] > 0

\* a quad: two triangles that share two loops, in one primitive
QuadSourcingReached ==
    /\ pc = "done"
    /\ Len(blender_mesh.polygons) = 1
    /\ Len(returned) = 1
    /\ Len(returned[1].indices) = 6
    /\ Len(prim_dots) = 4
    /\ "_FACEMAPS" \in DOMAIN returned[1].attributes

====
